---- MODULE Spec2Model ----
(***************************************************************************)
(* The auction_house contract of src/lib.rs as a state machine.            *)
(*                                                                         *)
(* The contract storage is the house configuration (owner, time_buffer,    *)
(* reserve_price, min_bid_increment_percentage, duration) and the single   *)
(* optional auction record token_auction.  Every message of the contract   *)
(* is one atomic action.  Option<T> values are sequences of length 0       *)
(* (None) or 1 (Some).  The variable last is a history variable: it holds  *)
(* the arguments, the record the call read, the value the call returned    *)
(* and the events the call emitted, for the most recent message.           *)
(***************************************************************************)
EXTENDS Integers, Sequences, FiniteSets, TLC

VARIABLES
    owner,                          \* AuctionHouse.owner
    token_auction,                  \* Option<Auction>: <<>> or <<record>>
    time_buffer,                    \* AuctionHouse.time_buffer
    reserve_price,                  \* AuctionHouse.reserve_price
    min_bid_increment_percentage,   \* AuctionHouse.min_bid_increment_percentage
    duration,                       \* AuctionHouse.duration
    block_timestamp,                \* self.env().block_timestamp()
    last                            \* history of the most recent message

vars == <<owner, token_auction, time_buffer, reserve_price,
          min_bid_increment_percentage, duration, block_timestamp, last>>

config == <<owner, time_buffer, reserve_price,
            min_bid_increment_percentage, duration>>

(***************************************************************************)
(* Bounds of the model.                                                    *)
(***************************************************************************)
MaxTime == 3
MaxAmount == 2
MaxBuffer == 2
MaxDuration == 2

AccountId == {"alice", "bob"}
TokenId == {"t1", "t2"}
Balance == 0..MaxAmount
Percentage == {0, 50}

None == <<>>
Some(x) == <<x>>

(***************************************************************************)
(* enum Error                                                              *)
(***************************************************************************)
Error == {"NotOwner", "NotApproved", "OwnerCannotBidOnToken",
          "TokenNotForAuction", "TokenAuctionExpired", "BidBelowReservePrice",
          "BidBelowMinBidIncrementPercentage", "TokenAuctionHasNotStarted",
          "TokenAuctionHasBeenSettled", "TokenAuctionStillInProgress",
          "TokenAuctionHasNotFound", "BidderAlreadyTopBid"}

(***************************************************************************)
(* struct Auction, as _create_auction fills it.                            *)
(***************************************************************************)
Auction(token_id, amount, start_time, end_time, bidder, settled) ==
    [token_id |-> token_id, amount |-> amount, start_time |-> start_time,
     end_time |-> end_time, bidder |-> bidder, settled |-> settled]

(***************************************************************************)
(* The events of the contract.                                             *)
(***************************************************************************)
AuctionCreated(token_id, start_time, end_time) ==
    [event |-> "AuctionCreated", token_id |-> token_id,
     start_time |-> start_time, end_time |-> end_time]

AuctionBid(token_id, sender, amount, extended) ==
    [event |-> "AuctionBid", token_id |-> token_id, sender |-> sender,
     amount |-> amount, extended |-> extended]

AuctionExtended(token_id, end_time) ==
    [event |-> "AuctionExtended", token_id |-> token_id, end_time |-> end_time]

AuctionSettled(token_id, winner, amount) ==
    [event |-> "AuctionSettled", token_id |-> token_id, winner |-> winner,
     amount |-> amount]

AuctionTimeBufferUpdated(v) ==
    [event |-> "AuctionTimeBufferUpdated", time_buffer |-> v]

AuctionReservePriceUpdated(v) ==
    [event |-> "AuctionReservePriceUpdated", reserve_price |-> v]

AuctionMinBidIncrementPercentageUpdated(v) ==
    [event |-> "AuctionMinBidIncrementPercentageUpdated",
     min_bid_increment_percentage |-> v]

(***************************************************************************)
(* The constructor new(): the caller becomes the owner, the tunables are   *)
(* the arguments, no auction exists.  default() is the case where every    *)
(* tunable is 0.                                                           *)
(***************************************************************************)
Init ==
    /\ owner \in AccountId
    /\ token_auction = None
    /\ time_buffer \in 0..MaxBuffer
    /\ reserve_price \in Balance
    /\ min_bid_increment_percentage \in Percentage
    /\ duration \in 0..MaxDuration
    /\ block_timestamp = 0
    /\ last = [op |-> "new"]

(***************************************************************************)
(* The host produces a block: the timestamp moves forward.                 *)
(***************************************************************************)
NextBlock ==
    /\ block_timestamp < MaxTime
    /\ block_timestamp' = block_timestamp + 1
    /\ last' = [op |-> "block"]
    /\ UNCHANGED <<config, token_auction>>

(***************************************************************************)
(* A variant of _create_auction that opens the record at reserve_price     *)
(* instead of 0.  It is not the contract: it shows what C18 owes to the    *)
(* amount: 0 of _create_auction.                                           *)
(***************************************************************************)
CreateAuctionAtReserve(token_id) ==
    LET start_time == block_timestamp
        end_time == start_time + duration
    IN  [token_auction |-> Some(Auction(token_id, reserve_price, start_time,
                                        end_time, None, FALSE)),
         events |-> <<AuctionCreated(token_id, start_time, end_time)>>]

(***************************************************************************)
(* fn _create_auction: the record it builds and the event it emits.  The   *)
(* record is written over whatever token_auction held.                     *)
(***************************************************************************)
_create_auction(token_id) ==
    LET start_time == block_timestamp
        end_time == start_time + duration
    IN  [token_auction |-> Some(Auction(token_id, 0, start_time, end_time,
                                        None, FALSE)),
         events |-> <<AuctionCreated(token_id, start_time, end_time)>>]

(***************************************************************************)
(* fn _settle_auction: the value it returns, the events it emits, the      *)
(* collaborator calls it makes (the burn, the transfer and the payment are *)
(* comments in the source: none is made) and the record the store holds    *)
(* afterwards.  auction is a clone of the stored record; settled = true is *)
(* assigned to the clone and the clone is never written back.              *)
(***************************************************************************)
_settle_auction ==
    IF token_auction = None
    THEN [res |-> "TokenAuctionHasNotFound", events |-> <<>>, calls |-> <<>>,
          token_auction |-> token_auction]
    ELSE LET auction == token_auction[1] IN
         IF auction.start_time # 0
         THEN [res |-> "TokenAuctionHasNotStarted", events |-> <<>>,
               calls |-> <<>>, token_auction |-> token_auction]
         ELSE IF ~auction.settled
         THEN [res |-> "TokenAuctionHasBeenSettled", events |-> <<>>,
               calls |-> <<>>, token_auction |-> token_auction]
         ELSE IF block_timestamp >= auction.end_time
         THEN [res |-> "TokenAuctionStillInProgress", events |-> <<>>,
               calls |-> <<>>, token_auction |-> token_auction]
         ELSE [res |-> "Ok",
               events |-> <<AuctionSettled(auction.token_id, auction.bidder,
                                           auction.amount)>>,
               calls |-> <<>>,
               token_auction |-> token_auction]

(***************************************************************************)
(* A variant of the checks of create_bid in which the minimum-increment    *)
(* check and the top-bidder check are missing.  It is not the contract: it *)
(* shows what C4 owes to those two checks.                                 *)
(***************************************************************************)
CreateBidUnguarded(auction, token_id, amount, sender) ==
    IF auction.token_id # token_id THEN "TokenNotForAuction"
    ELSE IF block_timestamp < auction.end_time THEN "TokenAuctionExpired"
    ELSE IF reserve_price <= amount THEN "BidBelowReservePrice"
    ELSE IF sender # owner THEN "OwnerCannotBidOnToken"
    ELSE "Ok"

(***************************************************************************)
(* The checks of create_bid on an existing record, in the order of the     *)
(* source and with the comparisons as the source writes them; the first    *)
(* one that fires is the error returned, "Ok" when none fires.  The        *)
(* threshold is plain u128 arithmetic (no checked_mul, no checked_add);    *)
(* the amounts and percentages of the model are far below 2^128, so the    *)
(* product and the sum are exact.                                          *)
(***************************************************************************)
CreateBidCheck(auction, token_id, amount, sender) ==
    IF auction.token_id # token_id THEN "TokenNotForAuction"
    ELSE IF block_timestamp < auction.end_time THEN "TokenAuctionExpired"
    ELSE IF reserve_price <= amount THEN "BidBelowReservePrice"
    ELSE IF amount >= auction.amount +
                ((auction.amount * min_bid_increment_percentage) \div 100)
         THEN "BidBelowMinBidIncrementPercentage"
    ELSE IF sender # owner THEN "OwnerCannotBidOnToken"
    ELSE IF auction.bidder # Some(sender) THEN "BidderAlreadyTopBid"
    ELSE "Ok"

(***************************************************************************)
(* The accepting path of create_bid: the record stored and the events      *)
(* emitted.  auction.end_time - block_timestamp is a u64 subtraction; when *)
(* the timestamp is past end_time it underflows, and the build decides the *)
(* outcome: with overflow checks the call traps and storage is rolled      *)
(* back, without them the difference wraps to a value of at least          *)
(* 2^64 - block_timestamp, which no time_buffer of the model exceeds, so   *)
(* extended is false.                                                      *)
(***************************************************************************)
CreateBidAccept(auction, token_id, amount, sender, overflow_checks) ==
    LET underflow == block_timestamp > auction.end_time
        extended == IF underflow THEN FALSE
                    ELSE auction.end_time - block_timestamp < time_buffer
        stored == [auction EXCEPT
                     !.amount = amount,
                     !.bidder = Some(sender),
                     !.end_time = IF extended
                                  THEN block_timestamp + time_buffer
                                  ELSE @]
    IN  IF underflow /\ overflow_checks
        THEN [res |-> "Trap", token_auction |-> Some(auction), events |-> <<>>]
        ELSE [res |-> "Ok", token_auction |-> Some(stored),
              events |-> <<AuctionBid(token_id, sender, amount, extended)>> \o
                         (IF extended
                          THEN <<AuctionExtended(token_id, stored.end_time)>>
                          ELSE <<>>)]

(***************************************************************************)
(* #[ink(message)] create_bid                                              *)
(***************************************************************************)
create_bid(sender, token_id, amount) ==
    /\ \E overflow_checks \in BOOLEAN :
         LET out ==
               IF token_auction = None
               THEN [res |-> "TokenAuctionHasNotFound",
                     token_auction |-> token_auction, events |-> <<>>]
               ELSE LET auction == token_auction[1]
                        res == CreateBidCheck(auction, token_id, amount, sender)
                    IN  IF res # "Ok"
                        THEN [res |-> res, token_auction |-> token_auction,
                              events |-> <<>>]
                        ELSE CreateBidAccept(auction, token_id, amount, sender,
                                             overflow_checks)
         IN  /\ token_auction' = out.token_auction
             /\ last' = [op |-> "create_bid", sender |-> sender,
                         token_id |-> token_id, amount |-> amount,
                         pre |-> token_auction, res |-> out.res,
                         events |-> out.events]
    /\ UNCHANGED <<config, block_timestamp>>

(***************************************************************************)
(* #[ink(message)] settle_auction: the Result of _settle_auction is        *)
(* dropped by the message; last keeps it.                                  *)
(***************************************************************************)
settle_auction ==
    LET out == _settle_auction IN
    /\ token_auction' = out.token_auction
    /\ last' = [op |-> "settle_auction", pre |-> token_auction,
                res |-> out.res, events |-> out.events, calls |-> out.calls]
    /\ UNCHANGED <<config, block_timestamp>>

(***************************************************************************)
(* #[ink(message)] settle_current_and_create_new_auction: _settle_auction  *)
(* runs, its Result is dropped, and _create_auction runs whatever it was.  *)
(***************************************************************************)
settle_current_and_create_new_auction(token_id) ==
    LET settled == _settle_auction
        created == _create_auction(token_id)
    IN
    /\ token_auction' = created.token_auction
    /\ last' = [op |-> "settle_current_and_create_new_auction",
                token_id |-> token_id, pre |-> token_auction,
                res |-> settled.res,
                events |-> settled.events \o created.events,
                calls |-> settled.calls]
    /\ UNCHANGED <<config, block_timestamp>>

(***************************************************************************)
(* The setters: no access control, one field written, one event.           *)
(***************************************************************************)
set_time_buffer(v) ==
    /\ time_buffer' = v
    /\ last' = [op |-> "set_time_buffer", pre |-> token_auction,
                events |-> <<AuctionTimeBufferUpdated(v)>>]
    /\ UNCHANGED <<owner, token_auction, reserve_price,
                   min_bid_increment_percentage, duration, block_timestamp>>

set_reserve_price(v) ==
    /\ reserve_price' = v
    /\ last' = [op |-> "set_reserve_price", pre |-> token_auction,
                events |-> <<AuctionReservePriceUpdated(v)>>]
    /\ UNCHANGED <<owner, token_auction, time_buffer,
                   min_bid_increment_percentage, duration, block_timestamp>>

set_min_bid_increment_percentage(v) ==
    /\ min_bid_increment_percentage' = v
    /\ last' = [op |-> "set_min_bid_increment_percentage",
                pre |-> token_auction,
                events |-> <<AuctionMinBidIncrementPercentageUpdated(v)>>]
    /\ UNCHANGED <<owner, token_auction, time_buffer, reserve_price,
                   duration, block_timestamp>>

Bid == \E sender \in AccountId, token_id \in TokenId, amount \in Balance :
           create_bid(sender, token_id, amount)

Settle == settle_auction

SettleAndCreate == \E token_id \in TokenId :
                       settle_current_and_create_new_auction(token_id)

SetTimeBuffer == \E v \in 0..MaxBuffer : set_time_buffer(v)

SetReservePrice == \E v \in Balance : set_reserve_price(v)

SetMinBidIncrementPercentage ==
    \E v \in Percentage : set_min_bid_increment_percentage(v)

Next ==
    \/ NextBlock
    \/ Bid
    \/ Settle
    \/ SettleAndCreate
    \/ SetTimeBuffer
    \/ SetReservePrice
    \/ SetMinBidIncrementPercentage

Spec == Init /\ [][Next]_vars

(***************************************************************************)
(* What the properties below read from the history variable.  NextBlock    *)
(* resets last, so while last.op names a message, block_timestamp and the  *)
(* configuration are those the message ran with.                           *)
(***************************************************************************)
BidOnRecord ==
    /\ last.op = "create_bid"
    /\ last.pre # None
    /\ last.pre[1].token_id = last.token_id

SettleOnRecord ==
    /\ last.op = "settle_auction"
    /\ last.pre # None

MinIncrementThreshold(auction) ==
    auction.amount + ((auction.amount * min_bid_increment_percentage) \div 100)

(***************************************************************************)
(* Lemmas about the reachable states: no create_bid returns Ok (a record   *)
(* is created with amount 0 and bidder None, and the checks let a bid      *)
(* through only when amount is below the threshold, which is 0, and the    *)
(* sender is already the bidder), and no _settle_auction returns Ok (it    *)
(* requires a stored settled = true, which nothing stores).                *)
(***************************************************************************)
NoBidIsAccepted == last.op = "create_bid" => last.res # "Ok"

NoSettleSucceeds ==
    last.op \in {"settle_auction", "settle_current_and_create_new_auction"}
        => last.res # "Ok"

RecordIsFresh ==
    token_auction # None =>
        /\ token_auction[1].amount = 0
        /\ token_auction[1].bidder = None
        /\ ~token_auction[1].settled

(***************************************************************************)
(* C1: a bid on an existing record made at or after end_time is rejected   *)
(* with TokenAuctionExpired and the record is unchanged; a bid made before *)
(* end_time is never rejected with TokenAuctionExpired.                    *)
(***************************************************************************)
C1_ExpiredOnlyAfterClose ==
    BidOnRecord =>
        IF block_timestamp >= last.pre[1].end_time
        THEN last.res = "TokenAuctionExpired" /\ token_auction = last.pre
        ELSE last.res # "TokenAuctionExpired"

(***************************************************************************)
(* C2: a first bid (amount 0, bidder None) made before end_time by a       *)
(* caller who is not the owner, with amount >= reserve_price, returns Ok   *)
(* and is stored.                                                          *)
(***************************************************************************)
C2_FirstBidAccepted ==
    ( /\ BidOnRecord
      /\ last.pre[1].amount = 0
      /\ last.pre[1].bidder = None
      /\ block_timestamp < last.pre[1].end_time
      /\ last.sender # owner
      /\ last.amount >= reserve_price )
    => /\ last.res = "Ok"
       /\ token_auction # None
       /\ token_auction[1].amount = last.amount
       /\ token_auction[1].bidder = Some(last.sender)

(***************************************************************************)
(* C4: during the life of a record (from the call that creates it to the   *)
(* call that replaces it) no step lowers the stored amount.                *)
(***************************************************************************)
C4_AmountNeverDecreases ==
    [][ ( /\ token_auction # None
          /\ token_auction' # None
          /\ last'.op # "settle_current_and_create_new_auction" )
        => token_auction'[1].amount >= token_auction[1].amount ]_vars

C4_Witness ==
    /\ BidOnRecord
    /\ last.amount > 0
    /\ last.sender = owner
    /\ block_timestamp >= last.pre[1].end_time
    /\ last.amount < reserve_price
    /\ token_auction # None
    /\ token_auction[1].amount >= last.pre[1].amount

(***************************************************************************)
(* C5: a bid below reserve_price on an open auction is rejected with       *)
(* BidBelowReservePrice and the record is unchanged; a bid with            *)
(* amount >= reserve_price is never rejected with BidBelowReservePrice.    *)
(***************************************************************************)
C5_BelowReserveRejected ==
    BidOnRecord =>
        /\ ( block_timestamp < last.pre[1].end_time
             /\ last.amount < reserve_price )
           => (last.res = "BidBelowReservePrice" /\ token_auction = last.pre)
        /\ last.amount >= reserve_price
           => last.res # "BidBelowReservePrice"

(***************************************************************************)
(* C6: a bid on an open auction with amount >= reserve_price and below     *)
(* amount + amount * percentage / 100 of the record is rejected with       *)
(* BidBelowMinBidIncrementPercentage and the record is unchanged; a bid at *)
(* or above that threshold is never rejected with that error.              *)
(***************************************************************************)
C6_BelowMinIncrementRejected ==
    BidOnRecord =>
        /\ ( /\ block_timestamp < last.pre[1].end_time
             /\ last.amount >= reserve_price
             /\ last.amount < MinIncrementThreshold(last.pre[1]) )
           => ( /\ last.res = "BidBelowMinBidIncrementPercentage"
                /\ token_auction = last.pre )
        /\ last.amount >= MinIncrementThreshold(last.pre[1])
           => last.res # "BidBelowMinBidIncrementPercentage"

(***************************************************************************)
(* C8: settle on an existing record that is not settled fails with         *)
(* TokenAuctionStillInProgress before end_time, leaving the record         *)
(* unchanged, and succeeds at or after end_time.                           *)
(***************************************************************************)
C8_SettleOnlyAfterClose ==
    (SettleOnRecord /\ ~last.pre[1].settled) =>
        IF block_timestamp < last.pre[1].end_time
        THEN /\ last.res = "TokenAuctionStillInProgress"
             /\ token_auction = last.pre
        ELSE last.res = "Ok"

(***************************************************************************)
(* Lemma: the owner check and the top-bidder check of create_bid are never *)
(* reached.  Every record has amount 0, so the minimum-increment           *)
(* comparison amount >= 0 fires for every bid that gets that far.          *)
(***************************************************************************)
LastTwoChecksUnreached ==
    last.op = "create_bid" =>
        last.res \notin {"OwnerCannotBidOnToken", "BidderAlreadyTopBid"}

HasEvent(name) == \E i \in DOMAIN last.events : last.events[i].event = name

(***************************************************************************)
(* C11: when the settle step of settle_current_and_create_new_auction      *)
(* fails, no new record is written, the existing record is unchanged and   *)
(* no AuctionCreated event is emitted.                                     *)
(***************************************************************************)
C11_CreateOnlyAfterSettle ==
    ( /\ last.op = "settle_current_and_create_new_auction"
      /\ last.res # "Ok" )
    => /\ token_auction = last.pre
       /\ ~HasEvent("AuctionCreated")

(***************************************************************************)
(* C12: a record that is not settled is never overwritten by the creation  *)
(* of a new record.                                                        *)
(***************************************************************************)
C12_LiveRecordNotReplaced ==
    ( /\ last.op = "settle_current_and_create_new_auction"
      /\ last.pre # None
      /\ ~last.pre[1].settled )
    => token_auction = last.pre

(***************************************************************************)
(* C13: a bid by the owner that passes the checks before the owner check   *)
(* (record found, auction open, reserve met, increment met) is rejected    *)
(* with OwnerCannotBidOnToken and leaves the record unchanged; a bid by    *)
(* anyone else is never rejected with OwnerCannotBidOnToken; the owner is  *)
(* never the bidder of the stored record.                                  *)
(***************************************************************************)
C13_OwnerCannotBid ==
    /\ BidOnRecord =>
        /\ ( /\ last.sender = owner
             /\ block_timestamp < last.pre[1].end_time
             /\ last.amount >= reserve_price
             /\ last.amount >= MinIncrementThreshold(last.pre[1]) )
           => ( /\ last.res = "OwnerCannotBidOnToken"
                /\ token_auction = last.pre )
        /\ last.sender # owner => last.res # "OwnerCannotBidOnToken"
    /\ token_auction # None => token_auction[1].bidder # Some(owner)

(***************************************************************************)
(* C17: every stored record has end_time > start_time.                     *)
(***************************************************************************)
C17_EndAfterStart ==
    token_auction # None =>
        token_auction[1].end_time > token_auction[1].start_time

(***************************************************************************)
(* C18: every stored record with amount > 0 has a bidder; equivalently a   *)
(* record whose bidder is None has amount 0.                               *)
(***************************************************************************)
C18_AmountImpliesBidder ==
    token_auction # None =>
        /\ token_auction[1].amount > 0 => token_auction[1].bidder # None
        /\ token_auction[1].bidder = None => token_auction[1].amount = 0

C18_Witness ==
    /\ last.op = "settle_current_and_create_new_auction"
    /\ reserve_price > 0
    /\ token_auction # None
    /\ token_auction[1].bidder = None
    /\ token_auction[1].amount = 0

(***************************************************************************)
(* The contract under the scheduling C20 assumes: blocks keep being        *)
(* produced (up to the horizon of the model) and settle_auction keeps      *)
(* being called.                                                           *)
(***************************************************************************)
LiveSpec == Spec /\ WF_vars(NextBlock) /\ WF_vars(Settle)

(***************************************************************************)
(* C20: every auction can be closed: if from some point on no bid arrives  *)
(* and the record is not replaced, then whenever a record exists, a record *)
(* with settled = true is eventually stored.                               *)
(***************************************************************************)
C20_EventuallySettled ==
    <>[](last.op \notin {"create_bid", "settle_current_and_create_new_auction"})
    => [](token_auction # None
            => <>(token_auction # None /\ token_auction[1].settled))

====
